---- MODULE Spec2Model ----
(***************************************************************************)
(* State-machine model of translate_V2.py: the two entry operations        *)
(* translate_excel_sheets ("all") and translate_selected_sheets            *)
(* ("selected"), with the merged-region index, the cell walker, the        *)
(* translation cache around the external translator, and the column-width  *)
(* pass.                                                                   *)
(*                                                                         *)
(* Text is a sequence of code points (naturals).  A cell value is a record *)
(* [t, s]: t = "none" (a blank cell) or "str" (the text s).                *)
(* A coordinate is <<row, col>>; a cell of the workbook is <<sheet, row,   *)
(* col>>.                                                                  *)
(***************************************************************************)
EXTENDS Integers, Sequences, FiniteSets, TLC

\* ---------------------------------------------------------------- bounds
MaxRow == 2
MaxCol == 2
MaxRegions == 2
MaxNames == 2

\* ------------------------------------------------------- program constants
\* re.search(r'[\u4e00-\u9fff]', ...): the CJK Unified Ideographs range.
CJKLow == 19968
CJKHigh == 40959
\* min(max_length + 2, 50)
WidthPad == 2
WidthCap == 50

\* ------------------------------------------------------------ code points
\* nl: the line break of split('\n') and of the composed value; the others are
\* the alphabet of the input texts: space, an ideograph (U+4E2D), "a", "E".
Char == [nl |-> 10, sp |-> 32, zh |-> 20013, a |-> 97, e |-> 69]
NL == Char.nl

\* str.isspace() for the code points str.strip() removes.
IsSpace(c) ==
    c \in ({9, 10, 11, 12, 13, 28, 29, 30, 31, 32, 133, 160, 5760, 8232, 8233,
            8239, 8287, 12288} \cup (8192..8202))

\* ------------------------------------------------------------ cell values
NoneV == [t |-> "none", s |-> <<>>]
Str(s) == [t |-> "str", s |-> s]

\* isinstance(value, str)
IsStr(v) == v.t = "str"

\* Python truthiness of a cell value: None and "" are falsy.
Truthy(v) == v.t = "str" /\ v.s # <<>>

\* ----------------------------------------------------------- text helpers
RECURSIVE LStrip(_)
LStrip(s) == IF s # <<>> /\ IsSpace(Head(s)) THEN LStrip(Tail(s)) ELSE s

RECURSIVE RStrip(_)
RStrip(s) ==
    IF s # <<>> /\ IsSpace(s[Len(s)]) THEN RStrip(SubSeq(s, 1, Len(s) - 1)) ELSE s

\* str.strip()
Strip(s) == RStrip(LStrip(s))

\* re.search(r'[\u4e00-\u9fff]', s) finds a match
HasCJK(s) == \E i \in 1..Len(s) : s[i] >= CJKLow /\ s[i] <= CJKHigh

\* s.split('\n')
RECURSIVE Split(_)
Split(s) ==
    LET idx == {i \in 1..Len(s) : s[i] = NL}
    IN  IF idx = {} THEN <<s>>
        ELSE LET i == CHOOSE j \in idx : \A m \in idx : j <= m
             IN  <<SubSeq(s, 1, i - 1)>> \o Split(SubSeq(s, i + 1, Len(s)))

\* max(len(line) for line in lines), as a running maximum
RECURSIVE MaxLen(_)
MaxLen(lines) ==
    IF Len(lines) = 1 THEN Len(lines[1])
    ELSE LET m == MaxLen(Tail(lines))
         IN  IF Len(lines[1]) > m THEN Len(lines[1]) ELSE m

\* max(len(line) for line in cell.value.split('\n'))
CellLength(s) == MaxLen(Split(s))

\* Mutant: the original first, the translation second.
ComposeSwapped(translated, text) == text \o <<NL>> \o translated

\* f"{translated.text}\n{text}"
Compose(translated, text) == translated \o <<NL>> \o text

\* ---------------------------------------------------------- the workbook
\* workbook.sheetnames
SheetNames == <<"S1", "S2">>
Sheets == {SheetNames[i] : i \in 1..Len(SheetNames)}
\* a name that is no sheet of the workbook
Unknown == "X"

\* sheet.max_row, sheet.max_column: the first sheet is a MaxRow x MaxCol grid,
\* the second a single cell.
max_row(s) == IF s = "S1" THEN MaxRow ELSE 1
max_column(s) == IF s = "S1" THEN MaxCol ELSE 1

Coords(s) == (1..max_row(s)) \X (1..max_column(s))
AllCells == {<<s, x[1], x[2]>> : s \in Sheets, x \in (1..MaxRow) \X (1..MaxCol)}
              \cap UNION {{<<s, x[1], x[2]>> : x \in Coords(s)} : s \in Sheets}
AllColumns == UNION {{<<s, c>> : c \in 1..max_column(s)} : s \in Sheets}

\* Values a cell of the input file may hold.
InputValues == {NoneV, Str(<<Char.a, Char.a>>), Str(<<Char.zh>>),
                Str(<<Char.sp, Char.zh>>)}

\* A merged range: a rectangle of more than one coordinate inside the grid.
Ranges(s) ==
    {[min_row |-> a, min_col |-> b, max_row |-> c, max_col |-> d] :
        a \in 1..max_row(s), b \in 1..max_column(s),
        c \in 1..max_row(s), d \in 1..max_column(s)}
    \cap {r \in [min_row : 1..MaxRow, min_col : 1..MaxCol,
                 max_row : 1..MaxRow, max_col : 1..MaxCol] :
            r.min_row <= r.max_row /\ r.min_col <= r.max_col
            /\ <<r.min_row, r.min_col>> # <<r.max_row, r.max_col>>}

SeqsUpTo(S, n) == UNION {[1..m -> S] : m \in 0..n}

\* list(sheet.merged_cells.ranges): distinct ranges, in any order; openpyxl does
\* not refuse ranges that overlap.
RangeLists(s) ==
    {rs \in SeqsUpTo(Ranges(s), MaxRegions) :
        \A i, j \in 1..Len(rs) : i # j => rs[i] # rs[j]}

\* The width a column has in the input file: above the cap and different per
\* column, so that an untouched width differs from every computed one.
InputWidth(c) == WidthCap + 10 + c

\* openpyxl's default Alignment(): wrapText unset, vertical unset.
DefaultAlignment == [wrapText |-> FALSE, vertical |-> "none"]

\* What translator.translate may do on one call: raise, or return some text.
Translations == {<<Char.e>>, [i \in 1..(WidthCap - 1) |-> Char.e]}
Outcomes == {[ok |-> FALSE, text |-> <<>>]} \cup {[ok |-> TRUE, text |-> t] : t \in Translations}

VARIABLES
    entry,          \* "all" | "selected": the entry operation that runs
    names,          \* the sheet names the run iterates over
    regions,        \* sheet -> list(sheet.merged_cells.ranges)
    cells,          \* <<sheet,row,col>> -> cell.value
    alignment,      \* <<sheet,row,col>> -> cell.alignment
    width,          \* <<sheet,col>> -> column_dimensions[letter].width
    translation_cache,
    pc,             \* "next" | "walk" | "layout" | "done"
    k,              \* index in names of the iteration under way (0: none yet)
    row, col,       \* the walker's (or the layout pass's) position
    merged_cells,   \* the index of the sheet under way
    merged_master_cells,
    saved,          \* number of workbook.save calls
    \* history, for stating the claims
    orig,           \* the cell values of the input file
    log,            \* the translation requests, in order: [cell, text, kind, out],
                    \* kind "hit" (answered by the cache), "ok" or "fail" (a call
                    \* of translator.translate that returned out, or raised)
    delays,         \* number of time.sleep calls
    writes,         \* <<sheet,row,col>> -> assignments to cell.value
    stages          \* the stages completed, in order: <<name, stage>>

vars == <<entry, names, regions, cells, alignment, width, translation_cache, pc, k,
          row, col, merged_cells, merged_master_cells, saved, orig, log, delays,
          writes, stages>>

\* ------------------------------------------------------- the region index
RangeCoords(r) == (r.min_row..r.max_row) \X (r.min_col..r.max_col)
Master(r) == <<r.min_row, r.min_col>>

\* merged_cells = set(); for merged_range in merged_ranges: ... add((row, col))
RECURSIVE BuildMergedCells(_)
BuildMergedCells(rs) ==
    IF rs = <<>> THEN {}
    ELSE BuildMergedCells(SubSeq(rs, 1, Len(rs) - 1)) \cup RangeCoords(rs[Len(rs)])

\* Mutant: the master cell is looked up once, before the loop, so every range is
\* given the first range's top-left cell.
BuildMasterCellsStale(rs) ==
    [x \in BuildMergedCells(rs) |-> <<rs[1].min_row, rs[1].min_col>>]

\* merged_master_cells = {}; for merged_range in merged_ranges: every coordinate
\* of the range is assigned the range's top-left cell (a later range overwrites).
RECURSIVE BuildMasterCells(_)
BuildMasterCells(rs) ==
    IF rs = <<>> THEN [x \in {} |-> <<0, 0>>]
    ELSE LET before == BuildMasterCells(SubSeq(rs, 1, Len(rs) - 1))
             r == rs[Len(rs)]
         IN  [x \in (DOMAIN before) \cup RangeCoords(r) |->
                 IF x \in RangeCoords(r) THEN Master(r) ELSE before[x]]

\* Mutant: the test compares the row only.
WalkerSkipsRowOnly(x) ==
    /\ x \in merged_cells
    /\ (x \in DOMAIN merged_master_cells => merged_master_cells[x][1] # x[1])

\* The walker's test (both entry operations): a covered coordinate that is not
\* the cell its index entry names is skipped, as is one with no entry.
WalkerSkips(x) ==
    /\ x \in merged_cells
    /\ (x \in DOMAIN merged_master_cells => merged_master_cells[x] # x)

\* The layout pass's test: only a covered coordinate with an entry naming
\* another cell is skipped.
LayoutSkips(x) ==
    /\ x \in merged_cells
    /\ x \in DOMAIN merged_master_cells
    /\ merged_master_cells[x] # x

\* cell.value and isinstance(cell.value, str) and re.search(...)
Qualifies(v) == Truthy(v) /\ IsStr(v) /\ HasCJK(v.s)

\* ------------------------------------------------------------- the cache
\* translation_cache[text] = result
CachePut(cache, text, result) ==
    [t \in (DOMAIN cache) \cup {text} |-> IF t = text THEN result ELSE cache[t]]

\* Mutant: the cache is never consulted.
CacheNeverHits(text) == FALSE

\* text in translation_cache
CacheHit(text) == text \in DOMAIN translation_cache

\* Mutant: no delay is taken.
SleepSkipped(n) == n

\* time.sleep(delay)
Sleep(n) == n + 1

\* Mutant: a failure is cached too, as the untranslated text.
translate_text_caching_failure(text, o) ==
    LET t == Strip(text)
    IN  IF t \in DOMAIN translation_cache
        THEN [ret |-> translation_cache[t], cache |-> translation_cache,
              delays |-> delays, kind |-> "hit", out |-> <<>>]
        ELSE IF o.ok
        THEN [ret |-> Compose(o.text, t),
              cache |-> CachePut(translation_cache, t, Compose(o.text, t)),
              delays |-> delays + 1, kind |-> "ok", out |-> o.text]
        ELSE [ret |-> t, cache |-> CachePut(translation_cache, t, t),
              delays |-> delays, kind |-> "fail", out |-> <<>>]

\* translate_text(text) of translate_excel_sheets, with o what
\* translator.translate does if it is called: the value returned, the cache and
\* the delays after it, and what happened (kind, out).
translate_text(text, o) ==
    IF text = <<>>
    THEN [ret |-> text, cache |-> translation_cache, delays |-> delays,
          kind |-> "none", out |-> <<>>]
    ELSE LET t == Strip(text)
         IN  IF CacheHit(t)
             THEN [ret |-> translation_cache[t], cache |-> translation_cache,
                   delays |-> delays, kind |-> "hit", out |-> <<>>]
             ELSE IF o.ok
             THEN [ret |-> Compose(o.text, t),
                   cache |-> CachePut(translation_cache, t, Compose(o.text, t)),
                   delays |-> Sleep(delays), kind |-> "ok", out |-> o.text]
             ELSE [ret |-> t, cache |-> translation_cache, delays |-> delays,
                   kind |-> "fail", out |-> <<>>]

Event(c, text, kind, out) == [cell |-> c, text |-> text, kind |-> kind, out |-> out]

\* ------------------------------------------------------------- traversal
\* The cell object the walker holds for a coordinate it does not skip.
ResolveCell(x) == IF x \in merged_cells THEN merged_master_cells[x] ELSE x

LastCell(s) == row = max_row(s) /\ col = max_column(s)

\* for row in range(1, max_row + 1): for col in range(1, max_column + 1)
StepWalker(s) ==
    IF col < max_column(s) THEN row' = row /\ col' = col + 1
    ELSE IF row < max_row(s) THEN row' = row + 1 /\ col' = 1
    ELSE row' = 1 /\ col' = 1

Bump(f, c) == [f EXCEPT ![c] = @ + 1]

\* openpyxl.styles.Alignment(wrapText=True, vertical='top')
WrapTop == [wrapText |-> TRUE, vertical |-> "top"]
\* openpyxl.styles.Alignment(wrapText=True)
WrapOnly == [wrapText |-> TRUE, vertical |-> "none"]

\* Mutant: the cap is forgotten.
UncappedWidth(max_length) == max_length + WidthPad

\* min(max_length + 2, 50)
AdjustedWidth(max_length) ==
    IF max_length + WidthPad < WidthCap THEN max_length + WidthPad ELSE WidthCap

\* The inner loop of the layout pass over the rows r..max_row of column c.
RECURSIVE ScanColumn(_, _, _, _)
ScanColumn(s, c, r, max_length) ==
    IF r > max_row(s) THEN max_length
    ELSE LET v == cells[<<s, r, c>>]
             longer == /\ Truthy(v)
                       /\ ~LayoutSkips(<<r, c>>)
                       /\ IsStr(v)
                       /\ CellLength(v.s) > max_length
         IN  ScanColumn(s, c, r + 1, IF longer THEN CellLength(v.s) ELSE max_length)

\* ------------------------------------------------------------------ Init
\* The state after load_workbook: any workbook within the bounds, and either
\* entry operation (the selected one with any list of names).
Init ==
    /\ \/ entry = "all" /\ names = SheetNames
       \/ entry = "selected" /\ names \in SeqsUpTo(Sheets \cup {Unknown}, MaxNames)
    /\ regions \in {f \in [Sheets -> UNION {RangeLists(s) : s \in Sheets}] :
                        \A s \in Sheets : f[s] \in RangeLists(s)}
    /\ cells \in [AllCells -> InputValues]
    /\ orig = cells
    /\ alignment = [c \in AllCells |-> DefaultAlignment]
    /\ width = [sc \in AllColumns |-> InputWidth(sc[2])]
    /\ translation_cache = [t \in {} |-> <<>>]
    /\ pc = "next"
    /\ k = 0
    /\ row = 1 /\ col = 1
    /\ merged_cells = {}
    /\ merged_master_cells = [x \in {} |-> <<0, 0>>]
    /\ saved = 0
    /\ log = <<>>
    /\ delays = 0
    /\ writes = [c \in AllCells |-> 0]
    /\ stages = <<>>

\* ------------------------------------------- translate_excel_sheets ("all")
\* for sheet_name in workbook.sheetnames: build the two index structures.
AllNextSheet ==
    /\ entry = "all" /\ pc = "next" /\ k < Len(names)
    /\ k' = k + 1
    /\ merged_cells' = BuildMergedCells(regions[names[k + 1]])
    /\ merged_master_cells' = BuildMasterCells(regions[names[k + 1]])
    /\ row' = 1 /\ col' = 1
    /\ pc' = "walk"
    /\ stages' = Append(stages, <<names[k + 1], "index">>)
    /\ UNCHANGED <<entry, names, regions, cells, alignment, width, translation_cache,
                   saved, orig, log, delays, writes>>

\* One iteration of the cell loop.
AllVisitCell ==
    /\ entry = "all" /\ pc = "walk"
    /\ LET s == names[k]
           x == <<row, col>>
       IN  /\ IF ~WalkerSkips(x) /\ Qualifies(cells[<<s>> \o ResolveCell(x)])
              THEN \E o \in Outcomes :
                     LET c == <<s>> \o ResolveCell(x)
                         r == translate_text(cells[c].s, o)
                     IN  /\ cells' = [cells EXCEPT ![c] = Str(r.ret)]
                         /\ alignment' = [alignment EXCEPT ![c] = WrapTop]
                         /\ translation_cache' = r.cache
                         /\ delays' = r.delays
                         /\ log' = Append(log, Event(c, Strip(cells[c].s), r.kind, r.out))
                         /\ writes' = Bump(writes, c)
              ELSE UNCHANGED <<cells, alignment, translation_cache, log, delays, writes>>
           /\ StepWalker(s)
           /\ pc' = IF LastCell(s) THEN "layout" ELSE "walk"
           /\ stages' = IF LastCell(s) THEN Append(stages, <<s, "walk">>) ELSE stages
    /\ UNCHANGED <<entry, names, regions, width, k, merged_cells, merged_master_cells,
                   saved, orig>>

\* One iteration of the column loop of the layout pass.
AllLayoutColumn ==
    /\ entry = "all" /\ pc = "layout"
    /\ LET s == names[k]
           max_length == ScanColumn(s, col, 1, 0)
           last == col = max_column(s)
       IN  /\ width' = IF max_length > 0
                       THEN [width EXCEPT ![<<s, col>>] = AdjustedWidth(max_length)]
                       ELSE width
           /\ col' = IF last THEN 1 ELSE col + 1
           /\ pc' = IF last THEN "next" ELSE "layout"
           /\ stages' = IF last THEN Append(stages, <<s, "layout">>) ELSE stages
    /\ UNCHANGED <<entry, names, regions, cells, alignment, translation_cache, k, row,
                   merged_cells, merged_master_cells, saved, orig, log, delays, writes>>

\* workbook.save(output_file)
AllSave ==
    /\ entry = "all" /\ pc = "next" /\ k = Len(names)
    /\ saved' = saved + 1
    /\ pc' = "done"
    /\ UNCHANGED <<entry, names, regions, cells, alignment, width, translation_cache, k,
                   row, col, merged_cells, merged_master_cells, orig, log, delays,
                   writes, stages>>

\* -------------------------------------- translate_selected_sheets ("selected")
\* for sheet_name in sheet_names: if sheet_name in workbook.sheetnames: build the
\* two index structures; a name that is no sheet is passed over.
SelNextName ==
    /\ entry = "selected" /\ pc = "next" /\ k < Len(names)
    /\ k' = k + 1
    /\ IF names[k + 1] \in Sheets
       THEN /\ merged_cells' = BuildMergedCells(regions[names[k + 1]])
            /\ merged_master_cells' = BuildMasterCells(regions[names[k + 1]])
            /\ pc' = "walk"
            /\ stages' = Append(stages, <<names[k + 1], "index">>)
       ELSE UNCHANGED <<merged_cells, merged_master_cells, pc, stages>>
    /\ row' = 1 /\ col' = 1
    /\ UNCHANGED <<entry, names, regions, cells, alignment, width, translation_cache,
                   saved, orig, log, delays, writes>>

\* One iteration of the cell loop.
SelVisitCell ==
    /\ entry = "selected" /\ pc = "walk"
    /\ LET s == names[k]
           x == <<row, col>>
       IN  /\ IF ~WalkerSkips(x) /\ Qualifies(cells[<<s>> \o ResolveCell(x)])
              THEN LET c == <<s>> \o ResolveCell(x)
                       text == Strip(cells[c].s)
                   IN  IF CacheHit(text)
                       THEN /\ cells' = [cells EXCEPT ![c] = Str(translation_cache[text])]
                            /\ writes' = Bump(writes, c)
                            /\ log' = Append(log, Event(c, text, "hit", <<>>))
                            /\ UNCHANGED <<alignment, translation_cache, delays>>
                       ELSE \E o \in Outcomes :
                              IF o.ok
                              THEN /\ translation_cache' =
                                        CachePut(translation_cache, text,
                                                 Compose(o.text, text))
                                   /\ cells' = [cells EXCEPT
                                          ![c] = Str(Compose(o.text, text))]
                                   /\ alignment' = [alignment EXCEPT ![c] = WrapOnly]
                                   /\ delays' = Sleep(delays)
                                   /\ writes' = Bump(writes, c)
                                   /\ log' = Append(log, Event(c, text, "ok", o.text))
                              ELSE /\ log' = Append(log, Event(c, text, "fail", <<>>))
                                   /\ UNCHANGED <<cells, alignment, translation_cache,
                                                  delays, writes>>
              ELSE UNCHANGED <<cells, alignment, translation_cache, log, delays, writes>>
           /\ StepWalker(s)
           /\ pc' = IF LastCell(s) THEN "next" ELSE "walk"
           /\ stages' = IF LastCell(s) THEN Append(stages, <<s, "walk">>) ELSE stages
    /\ UNCHANGED <<entry, names, regions, width, k, merged_cells, merged_master_cells,
                   saved, orig>>

\* workbook.save(output_file)
SelSave ==
    /\ entry = "selected" /\ pc = "next" /\ k = Len(names)
    /\ saved' = saved + 1
    /\ pc' = "done"
    /\ UNCHANGED <<entry, names, regions, cells, alignment, width, translation_cache, k,
                   row, col, merged_cells, merged_master_cells, orig, log, delays,
                   writes, stages>>

Next ==
    \/ AllNextSheet
    \/ AllVisitCell
    \/ AllLayoutColumn
    \/ AllSave
    \/ SelNextName
    \/ SelVisitCell
    \/ SelSave

Spec == Init /\ [][Next]_vars

\* ============================== CLAIMS ==================================
\* Vocabulary of the claims, stated from the input (regions, orig, names) and the
\* history (log, writes, stages), not from the walker's own index.
Done == pc = "done"

Cell(s, x) == <<s, x[1], x[2]>>
RegionsOf(s) == {regions[s][i] : i \in 1..Len(regions[s])}

\* The run processes sheet s this many times.
Times(s) == Cardinality({i \in 1..Len(names) : names[i] = s})

\* No two merged regions of sheet s share a coordinate.
NonOverlapping(s) ==
    \A i, j \in 1..Len(regions[s]) :
        i # j => RangeCoords(regions[s][i]) \cap RangeCoords(regions[s][j]) = {}

\* Region R of sheet s shares no coordinate with another region of s.
Isolated(s, R) ==
    \A Q \in RegionsOf(s) : Q # R => RangeCoords(Q) \cap RangeCoords(R) = {}

\* Eligible in the claims' words: a merged region's master coordinate, or a
\* coordinate in no region.
ClaimEligible(s, x) ==
    \/ \E R \in RegionsOf(s) : Master(R) = x
    \/ \A R \in RegionsOf(s) : x \notin RangeCoords(R)

\* Text containing at least one code point in U+4E00..U+9FFF.
IsCJKText(v) == v.t = "str" /\ \E i \in 1..Len(v.s) : v.s[i] \in 19968..40959

Events == {log[i] : i \in 1..Len(log)}
Requests(c) == Cardinality({i \in 1..Len(log) : log[i].cell = c})
ExternalCalls(t) == {i \in 1..Len(log) : log[i].kind # "hit" /\ log[i].text = t}
NoFailure == \A i \in 1..Len(log) : log[i].kind # "fail"

\* v is translate(t) + "\n" + t for a translation the translator returned for t.
BilingualOf(v, t) ==
    \E i \in 1..Len(log) :
        /\ log[i].kind = "ok" /\ log[i].text = t
        /\ v = Str(log[i].out \o <<10>> \o t)

SetMax(S) == CHOOSE m \in S : \A n \in S : n <= m

\* The longest line of s: the largest gap between two consecutive line breaks
\* (the ends of s counting as breaks).
LongestLine(s) ==
    LET breaks == {0, Len(s) + 1} \cup {i \in 1..Len(s) : s[i] = 10}
    IN  SetMax({b - a - 1 : <<a, b>> \in
                   {p \in breaks \X breaks :
                       p[1] < p[2] /\ \A m \in breaks : ~(p[1] < m /\ m < p[2])}})

\* ------------------------------------------------------------------- C1
C1_Body(s) ==
    \A x \in Coords(s) :
        /\ (ClaimEligible(s, x) /\ IsCJKText(orig[Cell(s, x)])
              => BilingualOf(cells[Cell(s, x)], Strip(orig[Cell(s, x)].s)))
        /\ (~IsCJKText(orig[Cell(s, x)]) => cells[Cell(s, x)] = orig[Cell(s, x)])

\* C1 as stated: after a run in which the translator succeeds, in every processed
\* sheet every eligible cell (a region's master coordinate, or a coordinate in no
\* region) holding CJK text has the value translate(trim(original)) + "\n" +
\* trim(original), and every cell holding no CJK text has its original value.
C1_AsStated ==
    (Done /\ NoFailure) => \A s \in Sheets : Times(s) >= 1 => C1_Body(s)

\* C1 (amended): the same, for every sheet whose merged regions do not overlap
\* and which the run processes exactly once.
C1_Qualification ==
    (Done /\ NoFailure) =>
        \A s \in Sheets : (Times(s) = 1 /\ NonOverlapping(s)) => C1_Body(s)

\* A finished run without failure over a once-processed sheet with a merged
\* region whose master held CJK text with surrounding whitespace and was replaced,
\* next to a cell without CJK text.
C1_Witness ==
    /\ Done /\ NoFailure
    /\ \E s \in Sheets :
        /\ Times(s) = 1 /\ NonOverlapping(s)
        /\ \E R \in RegionsOf(s) :
            /\ IsCJKText(orig[Cell(s, Master(R))])
            /\ Strip(orig[Cell(s, Master(R))].s) # orig[Cell(s, Master(R))].s
            /\ cells[Cell(s, Master(R))] # orig[Cell(s, Master(R))]
        /\ \E x \in Coords(s) : orig[Cell(s, x)].t = "str" /\ ~IsCJKText(orig[Cell(s, x)])

\* ------------------------------------------------------------------- C2
C2_Body(s, R) ==
    /\ \A x \in RangeCoords(R) \ {Master(R)} :
          /\ cells[Cell(s, x)] = orig[Cell(s, x)]
          /\ Requests(Cell(s, x)) = 0
          /\ writes[Cell(s, x)] = 0
    /\ Requests(Cell(s, Master(R))) <= 1
    /\ writes[Cell(s, Master(R))] <= 1

\* C2 as stated: for any merged region R with master M, every other coordinate of
\* R keeps its value, and at most one translation request and at most one value
\* write happen on behalf of R, both for M.
C2_AsStated == \A s \in Sheets : \A R \in RegionsOf(s) : C2_Body(s, R)

\* C2 (amended): the same, for a region that overlaps no other region of its
\* sheet, in a sheet the run processes at most once.
C2_RegionExclusivity ==
    \A s \in Sheets : \A R \in RegionsOf(s) :
        (Isolated(s, R) /\ Times(s) <= 1) => C2_Body(s, R)

\* A finished run over a region whose master was translated and written once
\* while a non-master coordinate of it stores CJK text.
C2_Witness ==
    /\ Done
    /\ \E s \in Sheets : \E R \in RegionsOf(s) :
        /\ Isolated(s, R) /\ Times(s) = 1
        /\ writes[Cell(s, Master(R))] = 1
        /\ Requests(Cell(s, Master(R))) = 1
        /\ \E x \in RangeCoords(R) \ {Master(R)} : IsCJKText(orig[Cell(s, x)])

\* ------------------------------------------------------------------- C3
\* Eligible for the walker, from the input: no region covers x, or x is the
\* master of the last listed region that covers it.
IndexEligible(s, x) ==
    LET cov == {i \in 1..Len(regions[s]) : x \in RangeCoords(regions[s][i])}
    IN  cov = {} \/ Master(regions[s][SetMax(cov)]) = x

\* Two distinct eligible cells of processed sheets holding CJK text with the same
\* trimmed text.
SameTextPair(c1, c2) ==
    /\ c1 # c2
    /\ Times(c1[1]) >= 1 /\ Times(c2[1]) >= 1
    /\ IndexEligible(c1[1], <<c1[2], c1[3]>>)
    /\ IndexEligible(c2[1], <<c2[2], c2[3]>>)
    /\ IsCJKText(orig[c1]) /\ IsCJKText(orig[c2])
    /\ Strip(orig[c1].s) = Strip(orig[c2].s)

C3_Body(c1, c2) ==
    /\ Cardinality(ExternalCalls(Strip(orig[c1].s))) = 1
    /\ cells[c1] = cells[c2]
    /\ \E e \in Events : e.kind = "ok" /\ cells[c1] = Str(e.out \o <<10>> \o e.text)

LayoutDone(s) == \E i \in 1..Len(stages) : stages[i] = <<s, "layout">>

\* L of the claim: over the eligible cells of column c holding text.
ClaimL(s, c) ==
    SetMax({0} \cup {LongestLine(cells[<<s, r, c>>].s) :
                        r \in {q \in 1..max_row(s) :
                                 /\ ClaimEligible(s, <<q, c>>)
                                 /\ cells[<<s, q, c>>].t = "str"}})

C4_Body(s) ==
    \A c \in 1..max_column(s) :
        width[<<s, c>>] =
            IF ClaimL(s, c) > 0
            THEN (IF ClaimL(s, c) + 2 < 50 THEN ClaimL(s, c) + 2 ELSE 50)
            ELSE InputWidth(c)

\* C4 as stated: after the layout pass of a sheet, every column's width is
\* min(L + 2, 50) when L > 0 and the input width when L = 0, with L the longest
\* line over the column's eligible cells (region masters and uncovered
\* coordinates) holding text.
C4_AsStated == \A s \in Sheets : LayoutDone(s) => C4_Body(s)

\* C4 (amended): the same, for a sheet whose merged regions do not overlap.
C4_ColumnWidth ==
    \A s \in Sheets : (LayoutDone(s) /\ NonOverlapping(s)) => C4_Body(s)

\* After the layout pass of a sheet with a region: one column clamped at the cap,
\* one column left at its input width although a non-master coordinate of it
\* holds text.
C4_Witness ==
    \E s \in Sheets :
        /\ LayoutDone(s) /\ NonOverlapping(s) /\ regions[s] # <<>>
        /\ \E c \in 1..max_column(s) : ClaimL(s, c) + 2 > 50 /\ width[<<s, c>>] = 50
        /\ \E c \in 1..max_column(s) :
            /\ width[<<s, c>>] = InputWidth(c)
            /\ \E r \in 1..max_row(s) :
                cells[<<s, r, c>>].t = "str" /\ ~ClaimEligible(s, <<r, c>>)

\* ------------------------------------------------------------------- C5
\* The last translation request for cell c was an external call that failed.
LastRequestFailed(c) ==
    \E i \in 1..Len(log) :
        /\ log[i].cell = c /\ log[i].kind = "fail"
        /\ \A j \in (i + 1)..Len(log) : log[j].cell # c

\* C5 as stated: a qualifying cell for whose text the translator failed keeps
\* exactly the value it had before the run (here: as long as no later request
\* for the cell succeeded), and the run goes on to its single save.
C5_AsStated ==
    \A c \in AllCells : (LastRequestFailed(c) /\ Requests(c) = 1) => cells[c] = orig[c]

\* ------------------------------------------------------------------- C6
\* The run replaced the value of cell c with a bilingual string.
Replaced(c) ==
    \E e \in Events : e.kind = "ok" /\ cells[c] = Str(e.out \o <<10>> \o e.text)

\* C6 as stated: for both entry operations, every cell whose value the run
\* replaced with a bilingual string is wrap-enabled with top vertical alignment.
C6_AsStated ==
    \A c \in AllCells :
        Replaced(c) => alignment[c] = [wrapText |-> TRUE, vertical |-> "top"]

\* ------------------------------------------------------------------- C7
\* The stages the claim expects for a list of names: index, walk, layout for
\* every name that is a sheet, nothing for a name that is not.
RECURSIVE ExpectedStages(_)
ExpectedStages(ns) ==
    IF ns = <<>> THEN <<>>
    ELSE (IF Head(ns) \in Sheets
          THEN <<<<Head(ns), "index">>, <<Head(ns), "walk">>, <<Head(ns), "layout">>>>
          ELSE <<>>) \o ExpectedStages(Tail(ns))

\* C7 as stated: translate selected sheets takes every listed name that is a
\* sheet, in list order, through the three stages index, walk, layout, and
\* passes over a name that is no sheet.
C7_AsStated == (Done /\ entry = "selected") => stages = ExpectedStages(names)

\* ------------------------------------------------------------------- C8
C8_CacheContent ==
    /\ DOMAIN translation_cache = {e.text : e \in {f \in Events : f.kind = "ok"}}
    /\ \A t \in DOMAIN translation_cache :
          \E e \in Events :
              e.kind = "ok" /\ e.text = t /\ translation_cache[t] = e.out \o <<10>> \o t
    \* a request is answered without an external call only after a success
    /\ \A j \in 1..Len(log) :
          log[j].kind = "hit" =>
              \E i \in 1..(j - 1) : log[i].kind = "ok" /\ log[i].text = log[j].text

\* The cell of a failed request is not requested again.
C8_NoRevisit ==
    \A i, j \in 1..Len(log) : (i < j /\ log[i].kind = "fail") => log[j].cell # log[i].cell

\* C8 as stated: the cache's keys are exactly the trimmed texts whose external
\* call succeeded earlier in the run, each value is translated + "\n" + key, a
\* later cell with a text that failed issues a new external call, and the cell
\* that failed is not visited again in the run.
C8_AsStated == C8_CacheContent /\ C8_NoRevisit

\* C8 (amended): the same, the last part only for a sheet the run processes at
\* most once (translate selected sheets visits the cells of a sheet once per
\* occurrence of its name in the list).
C8_FailureNotCached ==
    /\ C8_CacheContent
    /\ \A i, j \in 1..Len(log) :
          (i < j /\ log[i].kind = "fail" /\ Times(log[i].cell[1]) <= 1)
              => log[j].cell # log[i].cell

\* After a failure for a text, a later cell with the same trimmed text issued a
\* new external call, which succeeded and was cached.
C8_Witness ==
    \E i, j \in 1..Len(log) :
        /\ i < j
        /\ log[i].kind = "fail" /\ log[j].kind = "ok"
        /\ log[i].text = log[j].text /\ log[i].cell # log[j].cell
        /\ log[j].text \in DOMAIN translation_cache

\* ------------------------------------------------------------------- C9
Misses == {i \in 1..Len(log) : log[i].kind # "hit"}
Successes == {i \in 1..Len(log) : log[i].kind = "ok"}

\* C9 as stated: the delay is taken once after each external call that misses
\* the cache, so the number of delays equals the number of cache misses.
C9_AsStated == delays = Cardinality(Misses)

\* C9 (amended): the delay is taken once after each external call that
\* succeeds: the number of delays equals the number of successful external
\* calls, never exceeds the number of external calls, and a request answered by
\* the cache causes neither a call nor a delay.
C9_Throttling ==
    /\ delays = Cardinality(Successes)
    /\ delays <= Cardinality(Misses)
    /\ \A i, j \in 1..Len(log) :
          (i < j /\ log[i].kind = "ok" /\ log[i].text = log[j].text)
              => log[j].kind = "hit"

\* A run with a cache hit, a failed call and a successful call.
C9_Witness ==
    /\ \E e \in Events : e.kind = "hit"
    /\ \E e \in Events : e.kind = "fail"
    /\ delays >= 1

\* ------------------------------------------------------------------ C10
\* The index under construction is that of the sheet names[k].
IndexBuilt == pc = "walk"

C10_Body ==
    /\ \A x \in merged_cells :
          /\ x \in DOMAIN merged_master_cells
          /\ merged_master_cells[x] \in merged_cells
          /\ merged_master_cells[merged_master_cells[x]] = merged_master_cells[x]
    /\ \A R \in RegionsOf(names[k]) : \E x \in RangeCoords(R) : ~WalkerSkips(x)

\* C10 as stated: for the index built from any list of merged regions, every
\* covered coordinate has a master, the master is covered and is its own master,
\* and every region has a coordinate the walker treats as eligible.
C10_AsStated == IndexBuilt => C10_Body

\* C10 (amended): the same, for a list of regions no two of which overlap.
C10_IndexIdempotent == (IndexBuilt /\ NonOverlapping(names[k])) => C10_Body

\* The index of a sheet with two regions that do not overlap.
C10_Witness ==
    /\ IndexBuilt /\ NonOverlapping(names[k])
    /\ Len(regions[names[k]]) = 2
    /\ \E x \in merged_cells : merged_master_cells[x] # x

====
